---- MODULE Spec2Model ----
(***************************************************************************)
(* Conversation segmenter of InstagramChat-2-LLMdataset:                   *)
(* MessageParser.parse_conversations and its helpers (src/src/parser.py),  *)
(* load_messages, the parser of src/parser.py and the exporter             *)
(* (src/transformer.py).                                                   *)
(*                                                                         *)
(* A JSON value that may be missing or null is a record [tag, v]:          *)
(*   tag = "absent"  the key is not in the dict                            *)
(*   tag = "null"    the key is there and holds null (None)                *)
(*   tag = "val"     the key holds v                                       *)
(* (v is "" or 0 when there is no value, to keep one type per field).      *)
(***************************************************************************)
EXTENDS Integers, Sequences, FiniteSets, TLC

VARIABLES
    user_mapping,          \* self.user_mapping: sequence of <<role, identity>> (dict order)
    messages_data,         \* self.messages_data: NoData or [tag |-> "dict", messages |-> ...]
    self_conversations,    \* self.conversations
    args,                  \* the arguments of the parse_conversations calls
    pc,                    \* "idle": no call running; "loop": inside the for loop
    sorted_messages,       \* local sorted_messages
    i,                     \* position of the for loop in sorted_messages (1-based)
    conversations,         \* local conversations
    current_conversation,  \* local current_conversation
    branch,                \* the branch the last loop iteration took
    returned,              \* what each finished call returned or raised, in call order
    filesystem,            \* the paths that exist, each a directory or a file
    loaded,                \* path and outcome of the last load_messages call
    exported               \* what the last calls of the exporter returned or raised

vars == <<user_mapping, messages_data, self_conversations, args, pc, sorted_messages,
          i, conversations, current_conversation, branch, returned,
          filesystem, loaded, exported>>

\* what parse_conversations neither reads nor writes
Environment == <<filesystem, loaded, exported>>

----------------------------------------------------------------------------
(* Bounds of the model *)

MaxMsgs == 3        \* longest loaded message collection (generic inputs)
MaxCalls == 2       \* parse_conversations calls made on one parser
MaxSideMsgs == 2    \* longest collection of the attachment and alias inputs
MaxFiles == 2       \* most entries of a directory

----------------------------------------------------------------------------
(* Optional JSON values *)

AbsentStr == [tag |-> "absent", v |-> ""]
NullStr == [tag |-> "null", v |-> ""]
Str(s) == [tag |-> "val", v |-> s]

AbsentInt == [tag |-> "absent", v |-> 0]
NullInt == [tag |-> "null", v |-> 0]
Int_(n) == [tag |-> "val", v |-> n]

AbsentShare == [tag |-> "absent", share_text |-> AbsentStr]
NullShare == [tag |-> "null", share_text |-> AbsentStr]
Share(t) == [tag |-> "val", share_text |-> t]

\* dict.get(key, default): the default only when the key is missing
Get(field, default) == IF field.tag = "absent" THEN default ELSE field

\* Python truthiness of an optional str and of an optional int
TruthyStr(x) == x.tag = "val" /\ x.v # ""
TruthyInt(x) == x.tag = "val" /\ x.v # 0

----------------------------------------------------------------------------
(* Strings: str.lower() and str.strip() on the strings of the model *)

PLACEHOLDER == "enviaste un archivo adjunto."

Lower(s) ==
    CASE s = "User Name" -> "user name"
      [] s = "USER NAME" -> "user name"
      [] s = "Other Person" -> "other person"
      [] s = "User" -> "user"
      [] s = "Enviaste un archivo adjunto." -> "enviaste un archivo adjunto."
      [] s = " Enviaste un archivo adjunto. " -> " enviaste un archivo adjunto. "
      [] OTHER -> s

Strip(s) ==
    CASE s = " Enviaste un archivo adjunto. " -> "Enviaste un archivo adjunto."
      [] s = " enviaste un archivo adjunto. " -> "enviaste un archivo adjunto."
      [] s = " a photo " -> "a photo"
      [] s = "  " -> ""
      [] OTHER -> s

\* str(x) inside an f-string
Format(x) == IF x.tag = "val" THEN x.v ELSE "None"

----------------------------------------------------------------------------
(* _replace_username *)

RECURSIVE LookupRole(_, _)
LookupRole(mapping, username) ==
    IF mapping = <<>> THEN username
    ELSE IF Lower(Head(mapping)[2]) = Lower(username.v) THEN Str(Head(mapping)[1])
    ELSE LookupRole(Tail(mapping), username)

\* username.lower() on None raises AttributeError in the first iteration
ReplaceUsernameRaises(mapping, username) ==
    mapping # <<>> /\ username.tag # "val"

\* variant: the identity is compared with the name as written
ReplaceUsername_CaseSensitive(mapping, username) ==
    LET matching == {k \in 1..Len(mapping) : mapping[k][2] = username.v}
    IN IF matching = {} THEN username
       ELSE Str(mapping[CHOOSE k \in matching : \A j \in matching : k <= j][1])


ReplaceUsername(mapping, username) ==
    IF mapping = <<>> THEN username ELSE LookupRole(mapping, username)

----------------------------------------------------------------------------
(* sorted(messages, key=lambda x: x.get('timestamp_ms', 0)) *)

SortKey(message) == Get(message.timestamp_ms, Int_(0))

\* comparing None with an int (or with None) raises TypeError; a list of fewer
\* than two elements is never compared
SortRaises(messages) ==
    Len(messages) >= 2 /\ \E k \in 1..Len(messages) : SortKey(messages[k]).tag = "null"

RECURSIVE InsertByKey(_, _)
InsertByKey(message, sortedSeq) ==
    IF sortedSeq = <<>> THEN <<message>>
    ELSE IF SortKey(message).v < SortKey(Head(sortedSeq)).v
         THEN <<message>> \o sortedSeq
         ELSE <<Head(sortedSeq)>> \o InsertByKey(message, Tail(sortedSeq))

\* stable: a message goes behind the earlier messages of the same key
RECURSIVE StableSort(_)
StableSort(messages) ==
    IF messages = <<>> THEN <<>>
    ELSE InsertByKey(messages[Len(messages)], StableSort(SubSeq(messages, 1, Len(messages) - 1)))

\* variant: the messages are taken in file order
SortedMessages_FileOrder(messages) == messages


SortedMessages(messages) == StableSort(messages)

----------------------------------------------------------------------------
(* The processed message of one loop iteration *)

Sender(message) == ReplaceUsername(user_mapping, Get(message.sender_name, Str("")))

ShareText(message) ==
    IF message.share.tag = "val" THEN Get(message.share.share_text, NullStr) ELSE NullStr

\* variant: the share text is written as it stands in the record
Content_Unstripped(message) ==
    LET sender == ReplaceUsername(user_mapping, Get(message.sender_name, Str("")))
        content_raw == Get(message.content, Str(""))
        share_text == IF message.share.tag = "val"
                      THEN Get(message.share.share_text, NullStr) ELSE NullStr
    IN IF Lower(Strip(content_raw.v)) = PLACEHOLDER
       THEN IF TruthyStr(share_text)
            THEN "[image from " \o Format(sender) \o ": " \o share_text.v \o "]"
            ELSE "[image from " \o Format(sender) \o "]"
       ELSE content_raw.v


Content(message) ==
    LET sender == Sender(message)
        content_raw == Get(message.content, Str(""))
        share_text == ShareText(message)
    IN IF Lower(Strip(content_raw.v)) = PLACEHOLDER
       THEN IF TruthyStr(share_text) /\ Strip(share_text.v) # ""
            THEN "[image from " \o Format(sender) \o ": " \o Strip(share_text.v) \o "]"
            ELSE "[image from " \o Format(sender) \o "]"
       ELSE content_raw.v

\* datetime.fromtimestamp(ms / 1000.0).isoformat(): the text written for ms
IsoFormat(ms) == [tag |-> "val", v |-> ms]
NoTimestamp == [tag |-> "null", v |-> 0]

\* the attribute errors of lines 185-198: None.lower(), None.strip()
ProcessRaises(message) ==
    \/ ReplaceUsernameRaises(user_mapping, Get(message.sender_name, Str("")))
    \/ Get(message.content, Str("")).tag # "val"

ProcessedMsg(message) ==
    [sender |-> Sender(message),
     content |-> Content(message),
     timestamp_ms |-> Get(message.timestamp_ms, Int_(0)),
     timestamp |-> IF TruthyInt(Get(message.timestamp_ms, NullInt))
                   THEN IsoFormat(Get(message.timestamp_ms, Int_(0)).v)
                   ELSE NoTimestamp]

----------------------------------------------------------------------------
(* _should_group_messages, _is_valid_conversation, _group_consecutive_messages *)

Senders(conversation) == {conversation[k].sender : k \in 1..Len(conversation)}

Abs(n) == IF n < 0 THEN -n ELSE n

EXTENDED_THRESHOLD == 60

\* variant: a gap equal to the threshold splits
ShouldGroupMessages_Strict(msg1, msg2, time_threshold_seconds, conversation) ==
    LET has_interchange == conversation # <<>> /\ Cardinality(Senders(conversation)) > 1
        threshold == IF has_interchange THEN time_threshold_seconds ELSE EXTENDED_THRESHOLD
    IN Abs(msg2.timestamp_ms.v - msg1.timestamp_ms.v) < threshold * 1000

\* variant: the 60 seconds are used whether or not there is an interchange
ShouldGroupMessages_Fixed(msg1, msg2, time_threshold_seconds, conversation) ==
    Abs(msg2.timestamp_ms.v - msg1.timestamp_ms.v) <= EXTENDED_THRESHOLD * 1000

\* variant: the difference in milliseconds is compared with the seconds
ShouldGroupMessages_Millis(msg1, msg2, time_threshold_seconds, conversation) ==
    LET has_interchange == conversation # <<>> /\ Cardinality(Senders(conversation)) > 1
        threshold == IF has_interchange THEN time_threshold_seconds ELSE EXTENDED_THRESHOLD
    IN Abs(msg2.timestamp_ms.v - msg1.timestamp_ms.v) <= threshold

\* time_diff = abs(ts2 - ts1) / 1000.0 <= threshold, in milliseconds
ShouldGroupMessages(msg1, msg2, time_threshold_seconds, conversation) ==
    LET ts1 == msg1.timestamp_ms.v
        ts2 == msg2.timestamp_ms.v
        has_interchange == conversation # <<>> /\ Cardinality(Senders(conversation)) > 1
        threshold == IF has_interchange THEN time_threshold_seconds ELSE EXTENDED_THRESHOLD
    IN Abs(ts2 - ts1) <= threshold * 1000

\* variant: every conversation is kept
IsValidConversation_KeepAll(conversation, interchange_only) == TRUE

\* variant: one sender is enough
IsValidConversation_OneSender(conversation, interchange_only) ==
    IF ~interchange_only THEN TRUE
    ELSE Cardinality(Senders(conversation)) >= 1


IsValidConversation(conversation, interchange_only) ==
    IF ~interchange_only THEN TRUE
    ELSE Cardinality(Senders(conversation)) >= 2

\* variant: the cap is tested with > instead of >=
CapReached_OffByOne(conversation, max_messages) == Len(conversation) > max_messages

\* len(current_conversation) >= max_messages
CapReached(conversation, max_messages) == Len(conversation) >= max_messages

RECURSIVE GroupFrom(_, _, _)
GroupFrom(conversation, grouped, current_group) ==
    IF conversation = <<>> THEN Append(grouped, current_group)
    ELSE LET msg == Head(conversation)
         IN IF current_group.sender = msg.sender
            THEN GroupFrom(Tail(conversation), grouped,
                           [current_group EXCEPT !.content = @ \o ", " \o msg.content,
                                                 !.timestamp_ms = msg.timestamp_ms,
                                                 !.timestamp = msg.timestamp])
            ELSE GroupFrom(Tail(conversation), Append(grouped, current_group), msg)

\* variant: a merged message keeps the timestamps of the first message of its run
GroupConsecutiveMessages_FirstTimestamp(conversation) ==
    LET grouped == IF conversation = <<>> THEN conversation
                   ELSE GroupFrom(Tail(conversation), <<>>, Head(conversation))
        FirstOf(k) == CHOOSE n \in 1..Len(conversation) :
                          /\ conversation[n].sender = grouped[k].sender
                          /\ Cardinality({j \in 2..n : conversation[j].sender # conversation[j - 1].sender})
                                 = k - 1
                          /\ (n = 1 \/ conversation[n - 1].sender # conversation[n].sender)
    IN [k \in 1..Len(grouped) |->
           [grouped[k] EXCEPT !.timestamp_ms = conversation[FirstOf(k)].timestamp_ms,
                              !.timestamp = conversation[FirstOf(k)].timestamp]]


GroupConsecutiveMessages(conversation) ==
    IF conversation = <<>> THEN conversation
    ELSE GroupFrom(Tail(conversation), <<>>, Head(conversation))

\* variant: a call goes on from the conversations of the previous call
NewConversations_Accumulate(previous) == previous

\* conversations = []  (line 176): every call starts from an empty list
NewConversations(previous) == <<>>

\* variant: a conversation of one message is dropped at the close points
Close_DropSingle(convs, conversation, interchange_only) ==
    IF IsValidConversation(conversation, interchange_only) /\ Len(conversation) >= 2
    THEN Append(convs, conversation)
    ELSE convs


\* the three close points: append the open conversation if it is valid
Close(convs, conversation, interchange_only) ==
    IF IsValidConversation(conversation, interchange_only)
    THEN Append(convs, conversation)
    ELSE convs

----------------------------------------------------------------------------
(* The loaded collections and the arguments the calls are made with *)

RawMessage(sender_name, content, timestamp_ms, share) ==
    [sender_name |-> sender_name, content |-> content,
     timestamp_ms |-> timestamp_ms, share |-> share]

Identities == {"User Name", "Other Person"}
\* gaps of 10s (= the low threshold), 60s (= the extended threshold) and 70s
Offsets == {0, 10000, 70000}

\* content-bearing records of an export, and records without text
TextMessages ==
    {RawMessage(Str(s), Str("hi"), Int_(t), AbsentShare) : s \in Identities, t \in Offsets}
PlainMessages ==
    TextMessages
    \cup {RawMessage(Str("User Name"), AbsentStr, Int_(10000), AbsentShare),
          RawMessage(AbsentStr, Str("there"), AbsentInt, AbsentShare)}

\* records holding a null
NullMessages ==
    {RawMessage(NullStr, Str("hi"), Int_(10000), AbsentShare),
     RawMessage(Str("User Name"), NullStr, Int_(10000), AbsentShare),
     RawMessage(Str("Other Person"), Str("hi"), NullInt, AbsentShare),
     RawMessage(Str("Other Person"), Str("hi"), Int_(10000), NullShare)}

SeqsUpTo(S, n) == UNION {[1..k -> S] : k \in 0..n}

GenericInputs == SeqsUpTo(PlainMessages, MaxMsgs)

NullInputs ==
    {m \in SeqsUpTo(NullMessages \cup {RawMessage(Str("User Name"), Str("hi"), Int_(0), AbsentShare)},
                    MaxSideMsgs) :
        \E k \in 1..Len(m) : m[k] \in NullMessages}

\* data/messages.json.example: four messages at 0s, 15s, 20s and 90s, two
\* senders alternating; an export lists them in either order
Scenario(first, second) ==
    <<RawMessage(Str(first), Str("hi"), Int_(0), AbsentShare),
      RawMessage(Str(second), Str("there"), Int_(15000), AbsentShare),
      RawMessage(Str(first), Str("hi"), Int_(20000), AbsentShare),
      RawMessage(Str(second), Str("there"), Int_(90000), AbsentShare)>>

Reverse(s) == [k \in 1..Len(s) |-> s[Len(s) + 1 - k]]

ScenarioInputs ==
    {Scenario("User Name", "Other Person"), Scenario("Other Person", "User Name"),
     Reverse(Scenario("User Name", "Other Person")),
     Reverse(Scenario("Other Person", "User Name"))}

\* records with the attachment placeholder, with and without a share
AttachmentContents ==
    {"Enviaste un archivo adjunto.", " Enviaste un archivo adjunto. ",
     "enviaste un archivo adjunto.", "hi"}
Shares ==
    {AbsentShare, NullShare, Share(AbsentStr), Share(NullStr), Share(Str("")),
     Share(Str("  ")), Share(Str("a photo")), Share(Str(" a photo "))}
AttachmentMessages ==
    {RawMessage(Str("User Name"), Str(c), Int_(10000), sh) : c \in AttachmentContents, sh \in Shares}

AttachmentInputs ==
    {m \in SeqsUpTo(AttachmentMessages
                    \cup {RawMessage(Str("Other Person"), Str("hi"), Int_(0), AbsentShare)},
                    MaxSideMsgs) :
        Cardinality({k \in 1..Len(m) : m[k] \in AttachmentMessages}) = 1}

\* records whose sender differs from the identities of the alias table in
\* case, or is written like a role label
AliasNames == {"User Name", "USER NAME", "user", "Other Person"}
AliasMessages ==
    {RawMessage(Str(n), Str("hi"), Int_(10000), AbsentShare) : n \in AliasNames}
AliasInputs == SeqsUpTo(AliasMessages, MaxSideMsgs)

NoData == [tag |-> "none", messages |-> <<>>]
Data(messages) == [tag |-> "dict", messages |-> messages]

Mappings == {<<>>, <<<<"user", "User Name">>, <<"friend", "Other Person">>>>}

\* alias tables of one role, and of two roles for one person
AliasMappings ==
    {<<<<"user", "User Name">>>>,
     <<<<"user", "User Name">>, <<"me", "USER NAME">>>>,
     <<<<"me", "user name">>, <<"friend", "Other Person">>>>}

\* thresholds below and above the 60 seconds, and those of the tests
GenericThresholds == {10, 70}
ScenarioThresholds == {10, 30, 100}
MaxMessagesValues == {0, 2, 10}

ArgsWith(thresholds) ==
    [time_threshold_seconds : thresholds, interchange_only : BOOLEAN,
     max_messages : MaxMessagesValues, group_consecutive : BOOLEAN]

\* a result of a call
\* the default values of the parameters, with the given threshold
DefaultArgs(threshold) ==
    [time_threshold_seconds |-> threshold, interchange_only |-> TRUE,
     max_messages |-> 10, group_consecutive |-> FALSE]

Returns(value) == [kind |-> "return", value |-> value]
Raises == [kind |-> "raise", value |-> <<>>]

\* no path exists, no load_messages call and no exporter call was made
NoFiles == <<>>
NotLoaded == [path |-> "", outcome |-> "none"]
NotExported == [tag |-> "none"]

----------------------------------------------------------------------------
(* The parser after __init__ and load_messages *)

Init ==
    /\ \/ /\ user_mapping \in Mappings
          /\ messages_data \in {NoData} \cup {Data(m) : m \in GenericInputs \cup NullInputs}
          /\ args \in ArgsWith(GenericThresholds)
       \/ /\ user_mapping \in Mappings
          /\ messages_data \in {Data(m) : m \in ScenarioInputs}
          /\ args \in ArgsWith(ScenarioThresholds)
       \/ /\ user_mapping \in Mappings
          /\ messages_data \in {Data(m) : m \in AttachmentInputs}
          /\ args \in ArgsWith(GenericThresholds)
       \/ /\ user_mapping \in AliasMappings
          /\ messages_data \in {Data(m) : m \in AliasInputs}
          /\ args \in ArgsWith(GenericThresholds)
    /\ self_conversations = <<>>
    /\ pc = "idle"
    /\ sorted_messages = <<>>
    /\ i = 0
    /\ conversations = <<>>
    /\ current_conversation = <<>>
    /\ branch = "none"
    /\ returned = <<>>
    /\ filesystem = NoFiles
    /\ loaded = NotLoaded
    /\ exported = NotExported

Locals == <<sorted_messages, i, conversations, current_conversation>>

\* parse_conversations up to the for loop (lines 165-177)
ParseBegin ==
    /\ pc = "idle"
    /\ Len(returned) < MaxCalls
    /\ branch' = "none"
    /\ UNCHANGED <<user_mapping, messages_data, self_conversations, args, Environment>>
    /\ IF messages_data.tag = "none"
       THEN /\ returned' = Append(returned, Returns(<<>>))
            /\ UNCHANGED <<pc, Locals>>
       ELSE IF SortRaises(messages_data.messages)
       THEN /\ returned' = Append(returned, Raises)
            /\ UNCHANGED <<pc, Locals>>
       ELSE IF SortedMessages(messages_data.messages) = <<>>
       THEN /\ returned' = Append(returned, Returns(<<>>))
            /\ UNCHANGED <<pc, Locals>>
       ELSE /\ sorted_messages' = SortedMessages(messages_data.messages)
            /\ conversations' = NewConversations(self_conversations)
            /\ current_conversation' = <<>>
            /\ i' = 1
            /\ pc' = "loop"
            /\ UNCHANGED returned

\* one iteration of the for loop (lines 179-229)
LoopIteration ==
    /\ pc = "loop"
    /\ i <= Len(sorted_messages)
    /\ UNCHANGED <<user_mapping, messages_data, self_conversations, args, sorted_messages,
                   Environment>>
    /\ LET message == sorted_messages[i]
       IN IF message.content.tag = "absent"
          THEN /\ branch' = "skip"
               /\ i' = i + 1
               /\ UNCHANGED <<pc, conversations, current_conversation, returned>>
          ELSE IF ProcessRaises(message)
          THEN /\ branch' = "raise"
               /\ pc' = "idle"
               /\ returned' = Append(returned, Raises)
               /\ UNCHANGED <<i, conversations, current_conversation>>
          ELSE LET processed_msg == ProcessedMsg(message)
               IN /\ i' = i + 1
                  /\ UNCHANGED <<pc, returned>>
                  /\ IF current_conversation = <<>>
                     THEN /\ branch' = "start"
                          /\ current_conversation' = <<processed_msg>>
                          /\ UNCHANGED conversations
                     ELSE IF CapReached(current_conversation, args.max_messages)
                     THEN /\ branch' = "cap"
                          /\ conversations' = Close(conversations, current_conversation,
                                                    args.interchange_only)
                          /\ current_conversation' = <<processed_msg>>
                     ELSE IF ShouldGroupMessages(current_conversation[Len(current_conversation)],
                                                 processed_msg, args.time_threshold_seconds,
                                                 current_conversation)
                     THEN /\ branch' = "append"
                          /\ current_conversation' = Append(current_conversation, processed_msg)
                          /\ UNCHANGED conversations
                     ELSE /\ branch' = "gap"
                          /\ conversations' = Close(conversations, current_conversation,
                                                    args.interchange_only)
                          /\ current_conversation' = <<processed_msg>>

\* what parse_conversations returns after the loop (lines 231-238)
Result(convs, conversation, a) ==
    LET closed == IF conversation # <<>>
                  THEN Close(convs, conversation, a.interchange_only)
                  ELSE convs
    IN IF a.group_consecutive
       THEN [k \in 1..Len(closed) |-> GroupConsecutiveMessages(closed[k])]
       ELSE closed

\* the end of parse_conversations (lines 231-241)
ParseEnd ==
    /\ pc = "loop"
    /\ i > Len(sorted_messages)
    /\ self_conversations' = Result(conversations, current_conversation, args)
    /\ returned' = Append(returned, Returns(Result(conversations, current_conversation, args)))
    /\ pc' = "idle"
    /\ UNCHANGED <<user_mapping, messages_data, args, sorted_messages, i, conversations,
                   current_conversation, branch, Environment>>

Next == ParseBegin \/ LoopIteration \/ ParseEnd

Spec == Init /\ [][Next]_vars

----------------------------------------------------------------------------
(* load_messages and _fix_encoding *)

\* a string is written as in the JSON text: "cafÃ©" are the UTF-8
\* bytes of "café" read as latin1, which encode('latin1').decode('utf-8')
\* turns back; a string of ASCII characters is left as it is
FixEncodingStr(x) ==
    IF x.tag # "val" THEN x
    ELSE IF x.v = "caf\\u00c3\\u00a9" THEN Str("caf\\u00e9")
    ELSE x

FixEncoding(message) ==
    [sender_name |-> FixEncodingStr(message.sender_name),
     content |-> FixEncodingStr(message.content),
     timestamp_ms |-> message.timestamp_ms,
     share |-> [message.share EXCEPT !.share_text = FixEncodingStr(@)]]

\* what a file holds: an object with a 'messages' list, a list of messages, a
\* single message object, text that is not JSON, or bytes that are not UTF-8
ObjectFile(messages) == [kind |-> "object", messages |-> messages]
ListFile(messages) == [kind |-> "list", messages |-> messages]
MessageFile(message) == [kind |-> "message", messages |-> <<message>>]
Malformed == [kind |-> "malformed", messages |-> <<>>]
NotUtf8 == [kind |-> "not_utf8", messages |-> <<>>]

\* a path is a directory of entries, in the order os.listdir gives them, or a file
Directory(entries) == [type |-> "dir", entries |-> entries, data |-> Malformed]
File(data) == [type |-> "file", entries |-> <<>>, data |-> data]

\* a file name is "message_<digits>.json" (or .txt), held as its digits;
\* str comparison is by character, and '.' sorts before every digit
RECURSIVE LexLess(_, _)
LexLess(a, b) ==
    IF a = <<>> THEN b # <<>>
    ELSE IF b = <<>> THEN FALSE
    ELSE IF Head(a) # Head(b) THEN Head(a) < Head(b)
    ELSE LexLess(Tail(a), Tail(b))

RECURSIVE InsertByName(_, _)
InsertByName(entry, sortedSeq) ==
    IF sortedSeq = <<>> THEN <<entry>>
    ELSE IF LexLess(entry.name, Head(sortedSeq).name)
         THEN <<entry>> \o sortedSeq
         ELSE <<Head(sortedSeq)>> \o InsertByName(entry, Tail(sortedSeq))

RECURSIVE SortByName(_)
SortByName(entries) ==
    IF entries = <<>> THEN <<>>
    ELSE InsertByName(entries[Len(entries)], SortByName(SubSeq(entries, 1, Len(entries) - 1)))

\* sorted(json_files)
SortedFiles(json_files) == SortByName(json_files)

IsJson(entry) == entry.json

\* the for loop over the sorted files: JSONDecodeError is caught and the file
\* skipped, UnicodeDecodeError is not caught and ends the call
RECURSIVE LoadFiles(_, _)
LoadFiles(files, all_messages) ==
    IF files = <<>> THEN [outcome |-> "ok", messages |-> all_messages]
    ELSE LET file_data == Head(files).data
         IN IF file_data.kind = "not_utf8"
            THEN [outcome |-> "UnicodeDecodeError", messages |-> <<>>]
            ELSE IF file_data.kind = "malformed"
            THEN LoadFiles(Tail(files), all_messages)
            ELSE LoadFiles(Tail(files),
                           all_messages \o [k \in 1..Len(file_data.messages) |->
                                               FixEncoding(file_data.messages[k])])

\* outcome of load_messages(path) and the collection it would store
LoadOutcome(path) ==
    IF path \notin DOMAIN filesystem
    THEN [outcome |-> "FileNotFoundError", messages |-> <<>>]
    ELSE LET node == filesystem[path]
         IN IF node.type = "dir"
            THEN IF SelectSeq(node.entries, IsJson) = <<>>
                 THEN [outcome |-> "FileNotFoundError", messages |-> <<>>]
                 ELSE LoadFiles(SortedFiles(SelectSeq(node.entries, IsJson)), <<>>)
            ELSE IF node.data.kind = "not_utf8"
            THEN [outcome |-> "UnicodeDecodeError", messages |-> <<>>]
            ELSE IF node.data.kind = "malformed"
            THEN [outcome |-> "JSONDecodeError", messages |-> <<>>]
            ELSE [outcome |-> "ok",
                  messages |-> [k \in 1..Len(node.data.messages) |->
                                   FixEncoding(node.data.messages[k])]]

\* the paths load_messages is called with; "missing" never exists
Paths == {"first", "second", "missing"}

\* load_messages(path): self.messages_data is assigned only when nothing raised
LoadMessages ==
    /\ pc = "idle"
    /\ \E path \in Paths :
          /\ loaded' = [path |-> path, outcome |-> LoadOutcome(path).outcome]
          /\ messages_data' = IF LoadOutcome(path).outcome = "ok"
                              THEN Data(LoadOutcome(path).messages)
                              ELSE messages_data
    /\ UNCHANGED <<user_mapping, self_conversations, args, pc, Locals, branch, returned,
                   filesystem, exported>>

\* the files: the k-th message of the file named name
FileNames == {<<1>>, <<1, 0>>, <<2>>}
NumberOf(name) == IF Len(name) = 1 THEN name[1] ELSE 10 * name[1] + name[2]
FileMessage(name, k) ==
    RawMessage(Str(IF k % 2 = 1 THEN "User Name" ELSE "Other Person"),
               Str(IF k = 2 THEN "caf\\u00c3\\u00a9" ELSE "hi"),
               Int_(1000 * NumberOf(name) + k), AbsentShare)
FileDatas(name) ==
    {ObjectFile(<<FileMessage(name, 1), FileMessage(name, 2)>>),
     ListFile(<<FileMessage(name, 3)>>),
     MessageFile(FileMessage(name, 4)),
     Malformed, NotUtf8}
Entries ==
    {[name |-> n, json |-> TRUE, data |-> d] : n \in FileNames, d \in UNION {FileDatas(m) : m \in FileNames}}
    \cup {[name |-> n, json |-> FALSE, data |-> Malformed] : n \in FileNames}
Directories ==
    {d \in SeqsUpTo({e \in Entries : e.json => e.data \in FileDatas(e.name)}, MaxFiles) :
        \A k, j \in 1..Len(d) : k # j => d[k].name # d[j].name}

\* a single file given as the path
Files ==
    {File(d) : d \in {ObjectFile(<<FileMessage(<<1>>, 1), FileMessage(<<1>>, 2)>>),
                      Malformed, NotUtf8}}

\* "first" is a directory of one good file, "second" any directory or file
GoodDirectory ==
    Directory(<<[name |-> <<1>>, json |-> TRUE,
                 data |-> ObjectFile(<<FileMessage(<<1>>, 1), FileMessage(<<1>>, 2)>>)]>>)

LoadInit ==
    /\ user_mapping = <<>>
    /\ messages_data = NoData
    /\ args = DefaultArgs(30)
    /\ self_conversations = <<>>
    /\ pc = "idle"
    /\ sorted_messages = <<>>
    /\ i = 0
    /\ conversations = <<>>
    /\ current_conversation = <<>>
    /\ branch = "none"
    /\ returned = <<>>
    /\ filesystem \in {[p \in {"first", "second"} |-> IF p = "first" THEN GoodDirectory ELSE node] :
                          node \in {Directory(d) : d \in Directories} \cup Files}
    /\ loaded = NotLoaded
    /\ exported = NotExported

LoadNext == LoadMessages

LoadSpec == LoadInit /\ [][LoadNext]_vars

----------------------------------------------------------------------------
(* The parser of src/parser.py, which groups by the time threshold alone *)

FlatThresholds == {10, 30, 60, 100}

\* the content is stored as read: null stays None
FlatProcessedMsg(message) ==
    [sender |-> ReplaceUsername(user_mapping, Get(message.sender_name, Str(""))),
     content |-> Get(message.content, Str("")),
     timestamp_ms |-> Get(message.timestamp_ms, Int_(0)),
     timestamp |-> IF TruthyInt(Get(message.timestamp_ms, NullInt))
                   THEN IsoFormat(Get(message.timestamp_ms, Int_(0)).v)
                   ELSE NoTimestamp]

\* variant: a gap equal to the threshold splits
FlatShouldGroupMessages_Strict(msg1, msg2, time_threshold_seconds) ==
    Abs(msg2.timestamp_ms.v - msg1.timestamp_ms.v) < time_threshold_seconds * 1000


\* time_diff = abs(ts2 - ts1) / 1000.0 <= time_threshold_seconds
FlatShouldGroupMessages(msg1, msg2, time_threshold_seconds) ==
    Abs(msg2.timestamp_ms.v - msg1.timestamp_ms.v) <= time_threshold_seconds * 1000

\* the for loop from message k on, and the append after it
RECURSIVE FlatLoop(_, _, _, _, _)
FlatLoop(sorted, k, convs, conversation, time_threshold_seconds) ==
    IF k > Len(sorted)
    THEN IF conversation # <<>> THEN Append(convs, conversation) ELSE convs
    ELSE IF sorted[k].content.tag = "absent"
    THEN FlatLoop(sorted, k + 1, convs, conversation, time_threshold_seconds)
    ELSE LET processed_msg == FlatProcessedMsg(sorted[k])
         IN IF conversation = <<>>
            THEN FlatLoop(sorted, k + 1, convs, <<processed_msg>>, time_threshold_seconds)
            ELSE IF FlatShouldGroupMessages(conversation[Len(conversation)], processed_msg,
                                            time_threshold_seconds)
            THEN FlatLoop(sorted, k + 1, convs, Append(conversation, processed_msg),
                          time_threshold_seconds)
            ELSE FlatLoop(sorted, k + 1, Append(convs, conversation), <<processed_msg>>,
                          time_threshold_seconds)

\* username.lower() on None, for a record the loop does not skip
FlatLoopRaises(sorted) ==
    \E k \in 1..Len(sorted) :
        /\ sorted[k].content.tag # "absent"
        /\ ReplaceUsernameRaises(user_mapping, Get(sorted[k].sender_name, Str("")))

FlatInit ==
    /\ user_mapping \in Mappings
    /\ \/ /\ messages_data \in {NoData} \cup {Data(m) : m \in GenericInputs \cup NullInputs}
          /\ args \in {[time_threshold_seconds |-> t] : t \in GenericThresholds}
       \/ /\ messages_data \in {Data(m) : m \in ScenarioInputs}
          /\ args \in {[time_threshold_seconds |-> t] : t \in FlatThresholds}
    /\ self_conversations = <<>>
    /\ pc = "idle"
    /\ sorted_messages = <<>>
    /\ i = 0
    /\ conversations = <<>>
    /\ current_conversation = <<>>
    /\ branch = "none"
    /\ returned = <<>>
    /\ filesystem = NoFiles
    /\ loaded = NotLoaded
    /\ exported = NotExported

\* parse_conversations(time_threshold_seconds) of src/parser.py
FlatParseConversations ==
    /\ pc = "idle"
    /\ Len(returned) < MaxCalls
    /\ UNCHANGED <<user_mapping, messages_data, args, pc, Locals, branch, Environment>>
    /\ IF messages_data.tag = "none"
       THEN /\ returned' = Append(returned, Returns(<<>>))
            /\ UNCHANGED self_conversations
       ELSE IF SortRaises(messages_data.messages)
       THEN /\ returned' = Append(returned, Raises)
            /\ UNCHANGED self_conversations
       ELSE IF SortedMessages(messages_data.messages) = <<>>
       THEN /\ returned' = Append(returned, Returns(<<>>))
            /\ UNCHANGED self_conversations
       ELSE IF FlatLoopRaises(SortedMessages(messages_data.messages))
       THEN /\ returned' = Append(returned, Raises)
            /\ UNCHANGED self_conversations
       ELSE LET result == FlatLoop(SortedMessages(messages_data.messages), 1, <<>>, <<>>,
                                   args.time_threshold_seconds)
            IN /\ self_conversations' = result
               /\ returned' = Append(returned, Returns(result))

FlatNext == FlatParseConversations

FlatSpec == FlatInit /\ [][FlatNext]_vars

----------------------------------------------------------------------------
(* get_conversations, get_statistics *)

GetConversations == self_conversations

\* {} while nothing is loaded; the participants entry is not modelled
GetStatistics ==
    IF messages_data.tag = "none" THEN [tag |-> "empty"]
    ELSE [tag |-> "statistics",
          total_messages |-> Len(messages_data.messages),
          messages_with_content |->
              Cardinality({k \in 1..Len(messages_data.messages) :
                              messages_data.messages[k].content.tag # "absent"}),
          total_conversations |-> Len(self_conversations)]

----------------------------------------------------------------------------
(* The exporter: MessageTransformer of src/transformer.py *)

\* variant: only the sender written 'user' gets the role 'user'
MapSenderToRole_Exact(sender) == IF sender.v = "user" THEN "user" ELSE "assistant"


\* sender.lower() == 'user'
MapSenderToRole(sender) == IF Lower(sender.v) = "user" THEN "user" ELSE "assistant"

NonEmpty(record) == record.messages # <<>>

\* sender.lower() raises AttributeError on None
ToChatmlFormat(convs) ==
    IF \E k \in 1..Len(convs) : \E n \in 1..Len(convs[k]) : convs[k][n].sender.tag # "val"
    THEN Raises
    ELSE Returns(SelectSeq([k \in 1..Len(convs) |->
                               [messages |-> [n \in 1..Len(convs[k]) |->
                                                 [role |-> MapSenderToRole(convs[k][n].sender),
                                                  content |-> convs[k][n].content]]]],
                           NonEmpty))

\* json.dumps(conv): the JSON text of a record
JsonDumps(conv) == [json |-> conv]

ToJsonlFormat(convs) ==
    IF ToChatmlFormat(convs).kind = "raise" THEN Raises
    ELSE Returns([k \in 1..Len(ToChatmlFormat(convs).value) |->
                     JsonDumps(ToChatmlFormat(convs).value[k])])

\* one text per conversation: the header line with the number of the
\* conversation, then a line "sender: content" per message, the timestamp in
\* front of it when asked for and there is one
ToTextFormat(convs, include_timestamp) ==
    Returns([k \in 1..Len(convs) |->
                [header |-> k,
                 lines |-> [n \in 1..Len(convs[k]) |->
                               [timestamp |-> IF include_timestamp /\ convs[k][n].timestamp.tag = "val"
                                              THEN convs[k][n].timestamp ELSE NoTimestamp,
                                text |-> Format(convs[k][n].sender) \o ": " \o convs[k][n].content]]]])

\* to_chatml_format, to_jsonl_format and to_text_format on the conversations
\* the parser holds
Export ==
    /\ pc = "idle"
    /\ \E include_timestamp \in BOOLEAN :
          exported' = [tag |-> "exported",
                       chatml |-> ToChatmlFormat(GetConversations),
                       jsonl |-> ToJsonlFormat(GetConversations),
                       text |-> ToTextFormat(GetConversations, include_timestamp)]
    /\ UNCHANGED <<user_mapping, messages_data, self_conversations, args, pc, Locals, branch,
                   returned, filesystem, loaded>>

----------------------------------------------------------------------------
(* A session: load_messages, parse_conversations and the exporter in any order *)

ChatMessage(sender_name, content, timestamp_ms) ==
    RawMessage(sender_name, Str(content), Int_(timestamp_ms), AbsentShare)

\* two files, two exchanges 3 minutes apart; "User" is in no alias table
ChatDirectory ==
    Directory(<<[name |-> <<2>>, json |-> TRUE,
                 data |-> ListFile(<<ChatMessage(Str("Other Person"), "there", 200000),
                                     ChatMessage(Str("User Name"), "hi", 205000)>>)],
                [name |-> <<1>>, json |-> TRUE,
                 data |-> ObjectFile(<<ChatMessage(Str("User Name"), "hi", 0),
                                       ChatMessage(Str("Other Person"), "there", 10000),
                                       ChatMessage(Str("User"), "hi", 20000)>>)]>>)

\* a directory whose only recognized file is not JSON: the collection it gives is empty
UnreadableDirectory ==
    Directory(<<[name |-> <<1>>, json |-> TRUE, data |-> Malformed]>>)

\* a message whose sender_name is null
NullSenderDirectory ==
    Directory(<<[name |-> <<1>>, json |-> TRUE,
                 data |-> ObjectFile(<<ChatMessage(NullStr, "hi", 0),
                                       ChatMessage(Str("User Name"), "there", 10000)>>)]>>)

SessionFileSystems ==
    {[p \in {"first", "second"} |-> IF p = "first" THEN ChatDirectory ELSE UnreadableDirectory],
     [p \in {"first", "second"} |-> IF p = "first" THEN NullSenderDirectory ELSE ChatDirectory]}

SessionArgs == {[DefaultArgs(30) EXCEPT !.interchange_only = b] : b \in BOOLEAN}

\* a parser after __init__: nothing loaded, no conversations
SessionInit ==
    /\ user_mapping \in Mappings
    /\ messages_data = NoData
    /\ args \in SessionArgs
    /\ self_conversations = <<>>
    /\ pc = "idle"
    /\ sorted_messages = <<>>
    /\ i = 0
    /\ conversations = <<>>
    /\ current_conversation = <<>>
    /\ branch = "none"
    /\ returned = <<>>
    /\ filesystem \in SessionFileSystems
    /\ loaded = NotLoaded
    /\ exported = NotExported

SessionNext == LoadMessages \/ ParseBegin \/ LoopIteration \/ ParseEnd \/ Export

SessionSpec == SessionInit /\ [][SessionNext]_vars

----------------------------------------------------------------------------
(* Helpers of the properties *)

\* the values the finished calls returned
ReturnedValues == {returned[k].value : k \in {n \in 1..Len(returned) : returned[n].kind = "return"}}

\* the loop is about to process a content-bearing message, without an error,
\* while the open conversation is non-empty
AtOpenConversation ==
    /\ pc = "loop"
    /\ i <= Len(sorted_messages)
    /\ sorted_messages[i].content.tag # "absent"
    /\ ~ProcessRaises(sorted_messages[i])
    /\ current_conversation # <<>>

LastOpen == current_conversation[Len(current_conversation)]
GapMs(msg) == Abs(msg.timestamp_ms.v - LastOpen.timestamp_ms.v)
DistinctSenders(conversation) ==
    Cardinality({conversation[k].sender : k \in 1..Len(conversation)})

\* the loaded collection is the four example messages, first and second being
\* the two senders
IsScenario(first, second) ==
    /\ messages_data.tag = "dict"
    /\ messages_data.messages \in {Scenario(first, second), Reverse(Scenario(first, second))}

\* the processed form of the k-th example message in time order
ScenarioMsg(first, second, k) == ProcessedMsg(Scenario(first, second)[k])

----------------------------------------------------------------------------
(* C1 *)

\* C1: a content-bearing message processed while the open conversation is
\* non-empty is appended iff the open conversation holds fewer than
\* max_messages messages and its gap to the last message is <= the effective
\* threshold (time_threshold_seconds once the open conversation has >= 2
\* distinct senders, 60 before); otherwise the open conversation is closed
\* through the validity filter and the message starts a new one; the
\* max_messages test comes first.
C1_GroupingRule ==
    [][AtOpenConversation =>
        LET msg == ProcessedMsg(sorted_messages[i])
            effective == IF DistinctSenders(current_conversation) >= 2
                         THEN args.time_threshold_seconds ELSE 60
            below_cap == Len(current_conversation) < args.max_messages
            within == GapMs(msg) <= effective * 1000
            kept == ~args.interchange_only \/ DistinctSenders(current_conversation) >= 2
        IN /\ (below_cap /\ within) <=> (current_conversation' = Append(current_conversation, msg))
           /\ (below_cap /\ within) => conversations' = conversations
           /\ ~(below_cap /\ within) =>
                 /\ current_conversation' = <<msg>>
                 /\ conversations' = IF kept THEN Append(conversations, current_conversation)
                                     ELSE conversations
           /\ ~below_cap => branch' = "cap"
           /\ (below_cap /\ ~within) => branch' = "gap"
      ]_vars

\* a message joined an open conversation that already had an interchange, and
\* an earlier conversation was closed and kept
C1_Witness ==
    /\ branch = "append"
    /\ Len(current_conversation) >= 3
    /\ DistinctSenders(SubSeq(current_conversation, 1, Len(current_conversation) - 1)) >= 2
    /\ args.time_threshold_seconds < 60

----------------------------------------------------------------------------
(* C2 *)

\* C2 (as claimed): for every integer max_messages, every returned
\* conversation holds at most max_messages messages.
C2_AtMostMaxMessages ==
    \A value \in ReturnedValues : \A k \in 1..Len(value) :
        Len(value[k]) <= args.max_messages

\* C2 (amended): for every max_messages >= 1, every returned conversation
\* holds at most max_messages messages.
C2_AtMostMaxMessagesPositive ==
    args.max_messages >= 1 =>
        \A value \in ReturnedValues : \A k \in 1..Len(value) :
            Len(value[k]) <= args.max_messages

\* a conversation was split at the cap: it holds exactly max_messages
\* messages and another conversation follows it
C2_Witness ==
    /\ args.max_messages >= 1
    /\ \E value \in ReturnedValues :
          /\ Len(value) >= 2
          /\ Len(value[1]) = args.max_messages

----------------------------------------------------------------------------
(* C3 *)

\* C3: with interchange_only, every returned conversation has messages of at
\* least 2 distinct senders (so at least 2 messages), with or without
\* group_consecutive.
C3_InterchangeOnly ==
    args.interchange_only =>
        \A value \in ReturnedValues : \A k \in 1..Len(value) :
            /\ DistinctSenders(value[k]) >= 2
            /\ Len(value[k]) >= 2

\* a call with interchange_only and group_consecutive returned a conversation
\* although the collection also held a run that was discarded
C3_Witness ==
    /\ args.interchange_only
    /\ args.group_consecutive
    /\ \E value \in ReturnedValues :
          /\ value # <<>>
          /\ Len(value[1]) < Len(messages_data.messages)

----------------------------------------------------------------------------
(* C4 *)

\* C4: in every returned value the timestamps are non-decreasing inside each
\* conversation, and every conversation starts no earlier than the previous
\* one starts and ends.
C4_Chronological ==
    \A value \in ReturnedValues :
        /\ \A k \in 1..Len(value) : \A m \in 1..(Len(value[k]) - 1) :
              value[k][m].timestamp_ms.v <= value[k][m + 1].timestamp_ms.v
        /\ \A k \in 1..(Len(value) - 1) :
              /\ value[k][1].timestamp_ms.v <= value[k + 1][1].timestamp_ms.v
              /\ value[k][Len(value[k])].timestamp_ms.v <= value[k + 1][1].timestamp_ms.v

\* two conversations came out of a collection that was loaded out of order,
\* the first one with merged messages
C4_Witness ==
    /\ args.group_consecutive
    /\ messages_data.tag = "dict"
    /\ \E k \in 1..(Len(messages_data.messages) - 1) :
          SortKey(messages_data.messages[k]).v > SortKey(messages_data.messages[k + 1]).v
    /\ \E value \in ReturnedValues :
          /\ Len(value) >= 2
          /\ \E m \in 1..Len(value[1]) : value[1][m].content \notin {"hi", "there"}

----------------------------------------------------------------------------
(* C5 *)

\* C5: a call leaves the loaded messages and the alias table unchanged, and
\* the second of two calls returns what the first returned.
C5_Idempotent ==
    [][/\ messages_data' = messages_data
       /\ user_mapping' = user_mapping
       /\ Len(returned') >= 2 => returned'[2] = returned'[1]
      ]_vars

\* two calls with group_consecutive returned conversations with merged
\* messages
C5_Witness ==
    /\ Len(returned) >= 2
    /\ args.group_consecutive
    /\ returned[2].kind = "return"
    /\ \E k \in 1..Len(returned[2].value) : \E m \in 1..Len(returned[2].value[k]) :
          returned[2].value[k][m].content \notin {"hi", "there"}

----------------------------------------------------------------------------
(* C6 *)

\* C6: whatever fields of the records are absent or null, no call raises an
\* error, and every conversation of every returned value is non-empty.
C6_NeverRaises ==
    \A k \in 1..Len(returned) :
        /\ returned[k].kind = "return"
        /\ \A c \in 1..Len(returned[k].value) : returned[k].value[c] # <<>>

----------------------------------------------------------------------------
(* C7 *)

\* C7 (as claimed): the example messages with time_threshold_seconds=30 and
\* the other arguments at their defaults give 2 conversations, the first
\* three messages and the message at 90s.
C7_ScenarioA ==
    (args = DefaultArgs(30) /\ returned # <<>>) =>
        \A first \in Identities, second \in Identities :
            IsScenario(first, second) => \A value \in ReturnedValues :
                value = << <<ScenarioMsg(first, second, 1), ScenarioMsg(first, second, 2),
                             ScenarioMsg(first, second, 3)>>,
                           <<ScenarioMsg(first, second, 4)>> >>

\* C7 (amended): they give exactly 1 conversation, the first three messages;
\* the message at 90s opens a conversation of one sender, which the validity
\* filter drops at the end of the input.
C7_ScenarioA_OneConversation ==
    (args = DefaultArgs(30) /\ returned # <<>>) =>
        \A first \in Identities, second \in Identities :
            IsScenario(first, second) => \A value \in ReturnedValues :
                value = << <<ScenarioMsg(first, second, 1), ScenarioMsg(first, second, 2),
                             ScenarioMsg(first, second, 3)>> >>

\* a call on the example messages with threshold 30 has returned
C7_Witness ==
    /\ args = DefaultArgs(30)
    /\ ReturnedValues # {}
    /\ \E first \in Identities, second \in Identities : IsScenario(first, second)

----------------------------------------------------------------------------
(* C8 *)

\* C8 (as claimed): the example messages with time_threshold_seconds=10 give
\* 3 conversations: the message at 0s, the messages at 15s and 20s, the
\* message at 90s.
C8_ScenarioC ==
    (args = DefaultArgs(10) /\ returned # <<>>) =>
        \A first \in Identities, second \in Identities :
            IsScenario(first, second) => \A value \in ReturnedValues :
                value = << <<ScenarioMsg(first, second, 1)>>,
                           <<ScenarioMsg(first, second, 2), ScenarioMsg(first, second, 3)>>,
                           <<ScenarioMsg(first, second, 4)>> >>

\* C8 (amended): they give exactly 1 conversation, the messages at 0s, 15s
\* and 20s (the 15s gap is within the 60s allowed before an interchange); the
\* message at 90s alone is dropped by the validity filter.
C8_ScenarioC_OneConversation ==
    (args = DefaultArgs(10) /\ returned # <<>>) =>
        \A first \in Identities, second \in Identities :
            IsScenario(first, second) => \A value \in ReturnedValues :
                value = << <<ScenarioMsg(first, second, 1), ScenarioMsg(first, second, 2),
                             ScenarioMsg(first, second, 3)>> >>

\* a call on the example messages with threshold 10 has returned
C8_Witness ==
    /\ args = DefaultArgs(10)
    /\ ReturnedValues # {}
    /\ \E first \in Identities, second \in Identities : IsScenario(first, second)

----------------------------------------------------------------------------
(* C9 *)

\* C9: the example messages with time_threshold_seconds=100 give exactly 1
\* conversation holding the 4 messages in timestamp order.
C9_ScenarioB ==
    (args = DefaultArgs(100) /\ returned # <<>>) =>
        \A first \in Identities, second \in Identities :
            IsScenario(first, second) => \A value \in ReturnedValues :
                value = << <<ScenarioMsg(first, second, 1), ScenarioMsg(first, second, 2),
                             ScenarioMsg(first, second, 3), ScenarioMsg(first, second, 4)>> >>

\* a call on the example messages with threshold 100 has returned
C9_Witness ==
    /\ args = DefaultArgs(100)
    /\ ReturnedValues # {}
    /\ \E first \in Identities, second \in Identities : IsScenario(first, second)

----------------------------------------------------------------------------
(* C10 *)

\* C10: a content-bearing message within time_threshold_seconds of the last
\* message of an open conversation that holds fewer than max_messages
\* messages is appended to it.
C10_WithinThresholdAppended ==
    [][(/\ AtOpenConversation
        /\ Len(current_conversation) < args.max_messages
        /\ GapMs(ProcessedMsg(sorted_messages[i])) <= args.time_threshold_seconds * 1000)
       => current_conversation' =
              Append(current_conversation, ProcessedMsg(sorted_messages[i]))
      ]_vars

----------------------------------------------------------------------------
(* C11 *)

\* the positions of a conversation at which a run of one sender starts, and
\* the last position of the run starting at s
RunStarts(conversation) ==
    {s \in 1..Len(conversation) : s = 1 \/ conversation[s - 1].sender # conversation[s].sender}
RunEnd(conversation, s) ==
    CHOOSE e \in s..Len(conversation) :
        /\ \A j \in s..e : conversation[j].sender = conversation[s].sender
        /\ (e = Len(conversation) \/ conversation[e + 1].sender # conversation[s].sender)

RECURSIVE Joined(_, _, _)
Joined(conversation, s, e) ==
    IF s = e THEN conversation[s].content
    ELSE Joined(conversation, s, e - 1) \o ", " \o conversation[e].content

\* the n-th smallest element of a set of numbers
Nth(S, n) == CHOOSE s \in S : Cardinality({t \in S : t < s}) = n - 1

\* every maximal run replaced by one message
RunsMerged(conversation) ==
    [n \in 1..Cardinality(RunStarts(conversation)) |->
        LET s == Nth(RunStarts(conversation), n)
            e == RunEnd(conversation, s)
        IN [sender |-> conversation[s].sender,
            content |-> Joined(conversation, s, e),
            timestamp_ms |-> conversation[e].timestamp_ms,
            timestamp |-> conversation[e].timestamp]]

\* the conversations the call holds after the loop, before the grouping
Ungrouped ==
    IF current_conversation # <<>> /\ (~args.interchange_only
                                          \/ DistinctSenders(current_conversation) >= 2)
    THEN Append(conversations, current_conversation)
    ELSE conversations

\* C11: with group_consecutive = true every returned conversation is the
\* un-grouped conversation with each maximal run of adjacent messages of one
\* sender replaced by one message: that sender, the contents of the run joined
\* in order with ", ", timestamp_ms and timestamp of the last message of the
\* run; so no two adjacent messages of a returned conversation share a sender.
C11_GroupConsecutive ==
    [][(pc = "loop" /\ pc' = "idle" /\ returned'[Len(returned')].kind = "return"
        /\ args.group_consecutive)
       => LET value == returned'[Len(returned')].value
          IN /\ Len(value) = Len(Ungrouped)
             /\ \A k \in 1..Len(value) :
                   /\ value[k] = RunsMerged(Ungrouped[k])
                   /\ \A j \in 1..(Len(value[k]) - 1) : value[k][j].sender # value[k][j + 1].sender
      ]_vars

\* a returned conversation in which a run of two messages, 10s apart, was
\* merged and is followed by a message of the other sender
C11_Witness ==
    /\ args.group_consecutive
    /\ \E v \in ReturnedValues : \E k \in 1..Len(v) :
          /\ Len(v[k]) = 2
          /\ v[k][1].content = "hi, hi"
          /\ v[k][1].timestamp_ms = Int_(10000)
          /\ v[k][2].sender # v[k][1].sender

----------------------------------------------------------------------------
(* C12 *)

\* the loop has just processed a content-bearing message: the record it read
\* and the message it stored
JustProcessed == pc = "loop" /\ branch \in {"start", "cap", "append", "gap"}
RawProcessed == sorted_messages[i - 1]
Stored == current_conversation[Len(current_conversation)]

\* the raw content, trimmed and lower-cased, is the attachment placeholder
IsPlaceholder(raw) == Lower(Strip(raw.content.v)) = "enviaste un archivo adjunto."

\* the record has a share with a non-empty share_text
HasShareText(raw) ==
    /\ raw.share.tag = "val"
    /\ raw.share.share_text.tag = "val"
    /\ raw.share.share_text.v # ""

\* C12 (as stated): the content of the processed message is
\* "[image from S: T]" when the raw content is the placeholder and the record
\* has a non-empty share.share_text T, "[image from S]" when it is the
\* placeholder and there is no non-empty share_text, and the raw content
\* otherwise, S being the resolved sender.
C12_AttachmentContent ==
    JustProcessed =>
        LET raw == RawProcessed
            S == Format(Stored.sender)
        IN Stored.content =
              IF IsPlaceholder(raw) /\ HasShareText(raw)
              THEN "[image from " \o S \o ": " \o raw.share.share_text.v \o "]"
              ELSE IF IsPlaceholder(raw) THEN "[image from " \o S \o "]"
              ELSE raw.content.v

\* C12 (amended): T is the share_text trimmed of surrounding whitespace, and a
\* share_text that is empty once trimmed counts as no share_text.
C12_AttachmentContentTrimmed ==
    JustProcessed =>
        LET raw == RawProcessed
            S == Format(Stored.sender)
            T == IF HasShareText(raw) THEN Strip(raw.share.share_text.v) ELSE ""
        IN Stored.content =
              IF IsPlaceholder(raw) /\ T # ""
              THEN "[image from " \o S \o ": " \o T \o "]"
              ELSE IF IsPlaceholder(raw) THEN "[image from " \o S \o "]"
              ELSE raw.content.v

\* a placeholder with share_text " a photo ", sent by a mapped identity, has
\* been stored
C12_Witness ==
    /\ JustProcessed
    /\ RawProcessed.content = Str(" Enviaste un archivo adjunto. ")
    /\ RawProcessed.share = Share(Str(" a photo "))
    /\ Stored.content = "[image from user: a photo]"

----------------------------------------------------------------------------
(* C13 *)

\* the sender_name the loop read, '' when the record has none
RawName == Get(RawProcessed.sender_name, Str(""))

\* the roles whose identity equals the name ignoring case
MatchingRoles(name) ==
    {k \in 1..Len(user_mapping) : Lower(user_mapping[k][2]) = Lower(name.v)}

\* C13 (as stated): the processed sender is the role R whenever the alias
\* table maps R to an identity equal to the sender_name ignoring case, and is
\* the sender_name unchanged when no identity matches ignoring case.
C13_SenderResolution ==
    JustProcessed =>
        /\ \A k \in 1..Len(user_mapping) :
              (RawName.tag = "val" /\ k \in MatchingRoles(RawName))
                  => Stored.sender = Str(user_mapping[k][1])
        /\ (RawName.tag # "val" \/ MatchingRoles(RawName) = {}) => Stored.sender = RawName

\* C13 (amended): the processed sender is the first role, in the order of the
\* alias table, whose identity equals the sender_name ignoring case, and is
\* the sender_name unchanged when no identity matches ignoring case.
C13_SenderResolutionFirstRole ==
    JustProcessed =>
        IF RawName.tag = "val" /\ MatchingRoles(RawName) # {}
        THEN \E k \in MatchingRoles(RawName) :
                /\ \A j \in MatchingRoles(RawName) : k <= j
                /\ Stored.sender = Str(user_mapping[k][1])
        ELSE Stored.sender = RawName

\* a sender written in another case than the identity of the table was
\* resolved to the role
C13_Witness ==
    /\ JustProcessed
    /\ RawName = Str("USER NAME")
    /\ user_mapping = <<<<"user", "User Name">>>>
    /\ Stored.sender = Str("user")

----------------------------------------------------------------------------
(* C17 *)

RECURSIVE Flatten(_)
Flatten(convs) == IF convs = <<>> THEN <<>> ELSE Head(convs) \o Flatten(Tail(convs))

\* the positions of the content-bearing records of the loaded collection, and
\* the number of them that come before position k by timestamp_ms, ties in
\* input order
ContentBearing ==
    {k \in 1..Len(messages_data.messages) : messages_data.messages[k].content.tag # "absent"}
TimeOf(k) == Get(messages_data.messages[k].timestamp_ms, Int_(0)).v
Before(k) ==
    {j \in ContentBearing : TimeOf(j) < TimeOf(k) \/ (TimeOf(j) = TimeOf(k) /\ j < k)}

\* the processed content-bearing messages in time order
InTimeOrder ==
    [n \in 1..Cardinality(ContentBearing) |->
        ProcessedMsg(messages_data.messages[
            CHOOSE k \in ContentBearing : Cardinality(Before(k)) = n - 1])]

\* C17: with interchange_only = false, group_consecutive = false and
\* max_messages >= 1, the conversations a call returns, concatenated, are
\* exactly the content-bearing input messages sorted by timestamp_ms (ties in
\* input order), none lost or duplicated, and the conversation sizes add up to
\* messages_with_content of get_statistics.
C17_Conservation ==
    (pc = "idle" /\ returned # <<>> /\ messages_data.tag = "dict"
        /\ ~args.interchange_only /\ ~args.group_consecutive /\ args.max_messages >= 1)
    => \A v \in ReturnedValues :
          /\ Flatten(v) = InTimeOrder
          /\ Len(Flatten(v)) = GetStatistics.messages_with_content

\* three records loaded out of time order, one of them without content, were
\* returned as two conversations of one message
C17_Witness ==
    /\ pc = "idle" /\ messages_data.tag = "dict"
    /\ ~args.interchange_only /\ ~args.group_consecutive /\ args.max_messages >= 1
    /\ GetStatistics.total_messages = 3
    /\ GetStatistics.messages_with_content = 2
    /\ TimeOf(1) > TimeOf(3)
    /\ \E v \in ReturnedValues : Len(v) = 2 /\ Len(Flatten(v)) = 2

----------------------------------------------------------------------------
(* C19 *)

\* every role of the alias table has its own identity, ignoring case
OneIdentityPerRole ==
    \A k, j \in 1..Len(user_mapping) :
        k # j => /\ user_mapping[k][1] # user_mapping[j][1]
                 /\ Lower(user_mapping[k][2]) # Lower(user_mapping[j][2])

\* C19: when every role of the alias table has one identity and no two roles
\* have the same identity, two messages whose sender_name differ ignoring case
\* never get the same resolved sender.
C19_NeverMerges ==
    (JustProcessed /\ OneIdentityPerRole /\ RawName.tag = "val")
    => \A j \in 1..(i - 2) :
          LET other == sorted_messages[j]
              name == Get(other.sender_name, Str(""))
          IN (other.content.tag # "absent" /\ name.tag = "val"
                 /\ Lower(name.v) # Lower(RawName.v))
             => Sender(other) # Stored.sender

----------------------------------------------------------------------------
(* C16 *)

\* the messages the parser of src/parser.py makes of the content-bearing
\* records, in time order
FlatInTimeOrder ==
    [n \in 1..Cardinality(ContentBearing) |->
        FlatProcessedMsg(messages_data.messages[
            CHOOSE k \in ContentBearing : Cardinality(Before(k)) = n - 1])]

\* the conversation of v that holds the n-th message of its concatenation
RECURSIVE ConversationOf(_, _)
ConversationOf(v, n) ==
    IF n <= Len(Head(v)) THEN 1 ELSE 1 + ConversationOf(Tail(v), n - Len(Head(v)))

\* the time between the n-th and the next message of a sequence, in ms
GapAfter(L, n) == Abs(L[n + 1].timestamp_ms.v - L[n].timestamp_ms.v)

----------------------------------------------------------------------------
(* C15 *)

\* the entries of a directory that are recognized (.json), and those of them
\* that hold JSON
Recognized(node) == {k \in 1..Len(node.entries) : node.entries[k].json}
Decodable(node) ==
    {k \in Recognized(node) : node.entries[k].data.kind \notin {"malformed", "not_utf8"}}

\* the entry a loaded message comes from and its place in that file; the
\* messages of the files carry both in timestamp_ms
EntryOf(node, message) ==
    CHOOSE k \in 1..Len(node.entries) :
        NumberOf(node.entries[k].name) = message.timestamp_ms.v \div 1000
PlaceOf(message) == message.timestamp_ms.v % 1000

\* the messages are those of the decodable recognized files, file by file in
\* lexicographic order of the names and in the order of each file
InFileNameOrder(node, messages) ==
    /\ \A k \in Decodable(node) : \A n \in 1..Len(node.entries[k].data.messages) :
          \E p \in 1..Len(messages) : messages[p] = FixEncoding(node.entries[k].data.messages[n])
    /\ \A p \in 1..Len(messages) :
          /\ EntryOf(node, messages[p]) \in Decodable(node)
          /\ \E n \in 1..Len(node.entries[EntryOf(node, messages[p])].data.messages) :
                messages[p] = FixEncoding(node.entries[EntryOf(node, messages[p])].data.messages[n])
    /\ \A p, q \in 1..Len(messages) :
          p < q => LET a == node.entries[EntryOf(node, messages[p])].name
                       b == node.entries[EntryOf(node, messages[q])].name
                   IN \/ LexLess(a, b)
                      \/ a = b /\ PlaceOf(messages[p]) < PlaceOf(messages[q])

\* C15: load_messages on a directory reads the recognized files in
\* lexicographic order of their names and concatenates their messages in file
\* order, then in-file order; a file that fails to decode is skipped and the
\* others are still loaded, so the call is never aborted by one file; the call
\* fails with not-found exactly when the directory has no recognized file (or
\* the path does not exist), and then the loaded collection is unchanged.
C15_DirectoryIngestion ==
    [][(loaded' # loaded
        /\ (loaded'.path \in DOMAIN filesystem => filesystem[loaded'.path].type = "dir"))
       => IF loaded'.path \notin DOMAIN filesystem
             \/ Recognized(filesystem[loaded'.path]) = {}
          THEN loaded'.outcome = "FileNotFoundError" /\ messages_data' = messages_data
          ELSE /\ loaded'.outcome = "ok"
               /\ messages_data'.tag = "dict"
               /\ InFileNameOrder(filesystem[loaded'.path], messages_data'.messages)
      ]_vars

\* the same without files whose bytes are not UTF-8
C15_DirectoryIngestionOfText ==
    [][(loaded' # loaded
        /\ (loaded'.path \in DOMAIN filesystem => filesystem[loaded'.path].type = "dir")
        /\ (loaded'.path \in DOMAIN filesystem =>
               \A k \in Recognized(filesystem[loaded'.path]) :
                   filesystem[loaded'.path].entries[k].data.kind # "not_utf8"))
       => IF loaded'.path \notin DOMAIN filesystem
             \/ Recognized(filesystem[loaded'.path]) = {}
          THEN loaded'.outcome = "FileNotFoundError" /\ messages_data' = messages_data
          ELSE /\ loaded'.outcome = "ok"
               /\ messages_data'.tag = "dict"
               /\ InFileNameOrder(filesystem[loaded'.path], messages_data'.messages)
      ]_vars

----------------------------------------------------------------------------
(* C14 *)

\* every sender of the conversations is a string
SendersAreStrings(convs) ==
    \A k \in 1..Len(convs) : \A n \in 1..Len(convs[k]) : convs[k][n].sender.tag = "val"

\* C14: for the conversations the parser holds, to_chatml_format returns one
\* record per conversation in the same order, each with one {role, content}
\* per message in order, the content unchanged and the role 'user' iff the
\* sender equals 'user' ignoring case ('assistant' otherwise); to_jsonl_format
\* and to_text_format return one element per conversation in the same order.
C14_Exporter ==
    [][(exported' # exported /\ SendersAreStrings(self_conversations))
       => LET convs == self_conversations
              chatml == exported'.chatml
              jsonl == exported'.jsonl
              text == exported'.text
          IN /\ chatml.kind = "return" /\ jsonl.kind = "return" /\ text.kind = "return"
             /\ Len(chatml.value) = Len(convs)
             /\ Len(jsonl.value) = Len(convs)
             /\ Len(text.value) = Len(convs)
             /\ \A k \in 1..Len(convs) :
                   /\ Len(chatml.value[k].messages) = Len(convs[k])
                   /\ \A n \in 1..Len(convs[k]) :
                         /\ chatml.value[k].messages[n].content = convs[k][n].content
                         /\ chatml.value[k].messages[n].role =
                               IF Lower(convs[k][n].sender.v) = Lower("user")
                               THEN "user" ELSE "assistant"
                   /\ jsonl.value[k].json = chatml.value[k]
                   /\ text.value[k].header = k
                   /\ Len(text.value[k].lines) = Len(convs[k])
      ]_vars

\* the two conversations of the chat directory were exported without an alias
\* table: the sender "User" has the role 'user', "User Name" 'assistant'
C14_Witness ==
    /\ exported.tag = "exported"
    /\ user_mapping = <<>>
    /\ Len(self_conversations) = 2
    /\ exported.chatml.kind = "return"
    /\ Len(exported.chatml.value) = 2
    /\ exported.chatml.value[1].messages[1].role = "assistant"
    /\ exported.chatml.value[1].messages[3] = [role |-> "user", content |-> "hi"]
    /\ Len(exported.jsonl.value) = 2
    /\ Len(exported.text.value) = 2

----------------------------------------------------------------------------
(* C18 *)

\* C18: after any sequence of load_messages and parse_conversations calls,
\* get_conversations() and total_conversations of get_statistics() are those
\* of the value the most recent parse_conversations call returned; after a run
\* on an empty collection they are empty.
C18_LatestRun ==
    (pc = "idle" /\ returned # <<>> /\ returned[Len(returned)].kind = "return")
    => /\ GetConversations = returned[Len(returned)].value
       /\ GetStatistics.tag = "statistics"
             => GetStatistics.total_conversations = Len(returned[Len(returned)].value)

====
